---- MODULE Spec2Model ----
(***************************************************************************)
(* SonoTag backend (backend/app/main.py): the frame-wise detection core.   *)
(*                                                                         *)
(*   - postprocess_frame_scores ("smooth"): binarize, fill short gaps,     *)
(*     remove short spikes, rebuild scores.                                *)
(*   - the window preparation of /classify and /classify-local             *)
(*     ("prepare_window"): truncate to max_samples, then loop-tile to      *)
(*     EXPECTED_SAMPLES.                                                   *)
(*   - /classify-local from the tensor to the response: rounded frame      *)
(*     scores, mean global scores, optional smoothing per prompt.          *)
(*   - /analyze-youtube from the loaded audio to the response: duration    *)
(*     limit, chunk loop, per-chunk scores, mean across chunks.            *)
(*   - two calls of postprocess_frame_scores whose statement blocks        *)
(*     interleave.                                                         *)
(*   - lifespan and the model check at the head of each inference handler. *)
(*   - the yt-dlp retry loop of /analyze-youtube and                       *)
(*     /prepare-youtube-video, the temporary directory of /analyze-youtube *)
(*     and the cache of prepared videos with /stream-video and             *)
(*     /cleanup-video. Handlers run one at a time: their blocking parts    *)
(*     hold no await. A directory is the set of its files; a removal that  *)
(*     the source asks for succeeds.                                       *)
(*                                                                         *)
(* Sequences are 1-based here and 0-based in the source: the source's      *)
(* index i is kept as it is and the frame it names is read as seq[i + 1].  *)
(* Scores are integers in a unit fine enough that the threshold is even,   *)
(* so that threshold * 0.5 (exact in binary floating point) is an integer. *)
(* round(x, 4) is rounding to the nearest multiple of Grid score units,    *)
(* a tie going to the even multiple. Durations are whole seconds.          *)
(***************************************************************************)
EXTENDS Integers, Sequences, FiniteSets, TLC

\* ------------------------------------------------------------------ bounds

\* Longest frame score series drawn exhaustively.
MaxLen == 5
\* The three frame-count parameters are each drawn from 0..MaxParam.
MaxParam == 2
\* Scaled-down sample rate and window duration (48000 Hz and 10 s in the source).
SAMPLE_RATE == 2
MAX_DURATION_SECONDS == 2
\* Decoded buffers are drawn with up to EXPECTED_SAMPLES + ExtraSamples samples.
ExtraSamples == 1
\* Reported scores are multiples of Grid score units (of 10^-4 in the source).
Grid == 3
\* The model returns between 1 and MaxFrames frames per window.
MaxFrames == 2
\* The model's outputs repeat with period MaxCalls over the chunks of a video.
MaxCalls == 2
\* Downloaded audio tracks have up to MaxAudio samples.
MaxAudio == 6
\* chunk_duration_s is drawn from -1..MaxChunkSeconds (whole seconds).
MaxChunkSeconds == 3
\* Concurrent calls of postprocess_frame_scores get up to MaxCallLen frames.
MaxCallLen == 2

\* ------------------------------------------------------- program constants

MIN_GAP_FRAMES == 10
MIN_SPIKE_FRAMES == 2
MIN_EVENT_FRAMES == 10

EXPECTED_SAMPLES == SAMPLE_RATE * MAX_DURATION_SECONDS

\* ------------------------------------------------------------------- state

VARIABLES
    pc,                     \* "smooth" | "smoothed" | "classify" | "prepared" |
                            \* "responded" | "analyze" | "analyzed" |
                            \* "startup" | "serving" | "rejected" | "calls"
    scores,                 \* argument of postprocess_frame_scores
    threshold,
    min_gap_frames,
    min_spike_frames,
    min_event_frames,
    binarized,              \* binary right after line 92
    gap_filled,             \* binary after step 1 (line 123)
    total_positive_frames,  \* line 145
    binary,                 \* binary after step 2 (line 153)
    smoothed,               \* the returned list
    endpoint,               \* which handler prepared the window
    decoded,                \* audio_array as returned by librosa.load
    audio_array,            \* audio_array handed to torch.tensor
    outcome,                \* "none" | "ok" | the exception that ended the handler
    request,                \* the request's form fields or JSON body
    model_out,              \* what get_local_similarity returns, call after call
    calls,                  \* the handler's calls of the model and of the smoother
    response,               \* the response model the handler returns
    flam_model,             \* the global of line 32: "None" | "OpenFLAM"
    text_embeddings,        \* the global of line 33: "None" | "cached"
    startup_log,            \* the last message lifespan logged before yield
    invocations,            \* the frames of concurrent postprocess_frame_scores calls
    disk,                   \* the directories of the temp area, each with its files
    temp_dir,               \* the directory mkdtemp gave /analyze-youtube
    _prepared_videos,       \* the global of line 1172
    download,               \* the locals of the yt-dlp retry loop
    yt_dlp                  \* the yt_dlp package: "installed" | "missing"

vars == <<pc, scores, threshold, min_gap_frames, min_spike_frames,
          min_event_frames, binarized, gap_filled, total_positive_frames,
          binary, smoothed, endpoint, decoded, audio_array, outcome,
          request, model_out, calls, response,
          flam_model, text_embeddings, startup_log, invocations,
          disk, temp_dir, _prepared_videos, download, yt_dlp>>

smoothVars == <<scores, threshold, min_gap_frames, min_spike_frames,
                min_event_frames, binarized, gap_filled,
                total_positive_frames, binary, smoothed>>

windowVars == <<endpoint, decoded, audio_array, outcome>>

inferenceVars == <<request, model_out, calls, response>>

videoVars == <<disk, temp_dir, _prepared_videos, download>>

globalVars == <<flam_model, text_embeddings, startup_log, yt_dlp>>

\* -------------------------------------------------------- small utilities

\* Python's built-in max and min on two numbers.
Max(a, b) == IF a >= b THEN a ELSE b

Min(a, b) == IF a <= b THEN a ELSE b

\* threshold * 0.5
Half(t) == t \div 2

\* range(lo, hi) as the set of 0-based indices.
Range(lo, hi) == {j \in lo..(hi - 1) : TRUE}

\* ----------------------------------------------- postprocess_frame_scores

\* binary = [1 if s >= threshold else 0 for s in scores]
Binarize(s, t) == [i \in 1..Len(s) |-> IF s[i] >= t THEN 1 ELSE 0]

\* while i < n and binary[i] == v: i += 1   (lines 105-106 and 137-138)
RECURSIVE RunEnd(_, _, _)
RunEnd(b, i, v) ==
    IF i < Len(b) /\ b[i + 1] = v THEN RunEnd(b, i + 1, v) ELSE i

\* for j in range(start, end): binary[j] = v
SetRange(b, start, end, v) ==
    [j \in 1..Len(b) |-> IF (j - 1) \in Range(start, end) THEN v ELSE b[j]]

\* Fault variant of FillGaps: the gap test is `gap_length <= min_gap_frames`.
RECURSIVE FillGapsInclusive(_, _, _)
FillGapsInclusive(b, i, minGap) ==
    IF i >= Len(b) THEN b
    ELSE IF b[i + 1] = 0
    THEN LET gap_start == i
             gap_end == RunEnd(b, i, 0)
             gap_length == gap_end - gap_start
             has_positive_before == gap_start > 0 /\ b[(gap_start - 1) + 1] = 1
             has_positive_after == gap_end < Len(b) /\ b[gap_end + 1] = 1
         IN  IF has_positive_before /\ has_positive_after /\ gap_length <= minGap
             THEN FillGapsInclusive(SetRange(b, gap_start, gap_end, 1), gap_end, minGap)
             ELSE FillGapsInclusive(b, gap_end, minGap)
    ELSE FillGapsInclusive(b, i + 1, minGap)

\* Fault variant of FillGaps: has_positive_before is read one frame further
\* left, so a gap is judged by a frame the scan may have just filled.
RECURSIVE FillGapsLookBack(_, _, _)
FillGapsLookBack(b, i, minGap) ==
    IF i >= Len(b) THEN b
    ELSE IF b[i + 1] = 0
    THEN LET gap_start == i
             gap_end == RunEnd(b, i, 0)
             gap_length == gap_end - gap_start
             has_positive_before == gap_start > 1 /\ b[(gap_start - 2) + 1] = 1
             has_positive_after == gap_end < Len(b) /\ b[gap_end + 1] = 1
         IN  IF has_positive_before /\ has_positive_after /\ gap_length < minGap
             THEN FillGapsLookBack(SetRange(b, gap_start, gap_end, 1), gap_end, minGap)
             ELSE FillGapsLookBack(b, gap_end, minGap)
    ELSE FillGapsLookBack(b, i + 1, minGap)

\* Fault variant of FillGaps: the gap test is `gap_length < min_gap_frames - 1`.
RECURSIVE FillGapsOffByOne(_, _, _)
FillGapsOffByOne(b, i, minGap) ==
    IF i >= Len(b) THEN b
    ELSE IF b[i + 1] = 0
    THEN LET gap_start == i
             gap_end == RunEnd(b, i, 0)
             gap_length == gap_end - gap_start
             has_positive_before == gap_start > 0 /\ b[(gap_start - 1) + 1] = 1
             has_positive_after == gap_end < Len(b) /\ b[gap_end + 1] = 1
         IN  IF has_positive_before /\ has_positive_after /\ gap_length < minGap - 1
             THEN FillGapsOffByOne(SetRange(b, gap_start, gap_end, 1), gap_end, minGap)
             ELSE FillGapsOffByOne(b, gap_end, minGap)
    ELSE FillGapsOffByOne(b, i + 1, minGap)

\* Step 1, the in-place left-to-right scan from index i on.
RECURSIVE FillGaps(_, _, _)
FillGaps(b, i, minGap) ==
    IF i >= Len(b) THEN b
    ELSE IF b[i + 1] = 0
    THEN LET gap_start == i
             gap_end == RunEnd(b, i, 0)
             gap_length == gap_end - gap_start
             has_positive_before == gap_start > 0 /\ b[(gap_start - 1) + 1] = 1
             has_positive_after == gap_end < Len(b) /\ b[gap_end + 1] = 1
         IN  IF has_positive_before /\ has_positive_after /\ gap_length < minGap
             THEN FillGaps(SetRange(b, gap_start, gap_end, 1), gap_end, minGap)
             ELSE FillGaps(b, gap_end, minGap)
    ELSE FillGaps(b, i + 1, minGap)

\* Step 2a, the list positive_segments of (seg_start, seg_end) from index i on.
RECURSIVE PositiveSegments(_, _)
PositiveSegments(b, i) ==
    IF i >= Len(b) THEN <<>>
    ELSE IF b[i + 1] = 1
    THEN LET seg_start == i
             seg_end == RunEnd(b, i, 1)
         IN  <<(<<seg_start, seg_end>>)>> \o PositiveSegments(b, seg_end)
    ELSE PositiveSegments(b, i + 1)

\* sum(end - start for start, end in positive_segments)
RECURSIVE TotalPositive(_)
TotalPositive(segs) ==
    IF segs = <<>> THEN 0
    ELSE (segs[1][2] - segs[1][1]) + TotalPositive(Tail(segs))

\* The body of `for seg_start, seg_end in positive_segments:` (lines 149-153).
RECURSIVE ZeroShortSegments(_, _, _)
ZeroShortSegments(b, segs, minSpike) ==
    IF segs = <<>> THEN b
    ELSE LET seg_start == segs[1][1]
             seg_end == segs[1][2]
             seg_length == seg_end - seg_start
         IN  IF seg_length < minSpike
             THEN ZeroShortSegments(SetRange(b, seg_start, seg_end, 0),
                                    Tail(segs), minSpike)
             ELSE ZeroShortSegments(b, Tail(segs), minSpike)

\* Fault variant of RemoveSpikes: the gate is `total_positive_frames >= min_event_frames`.
RemoveSpikesAtLeast(b, segs, total, minSpike, minEvent) ==
    IF total >= minEvent THEN ZeroShortSegments(b, segs, minSpike) ELSE b

\* Step 2b: remove short spikes only if the total event is long enough.
RemoveSpikes(b, segs, total, minSpike, minEvent) ==
    IF total > minEvent THEN ZeroShortSegments(b, segs, minSpike) ELSE b

\* Fault variant of SmoothedScore: rejected frames are emitted as 0.
SmoothedScoreZero(score, is_positive, t) ==
    IF is_positive # 0 THEN Max(score, t) ELSE 0

\* Fault variant of SmoothedScore: accepted frames keep the raw score unclamped.
SmoothedScoreUnclamped(score, is_positive, t) ==
    IF is_positive # 0 THEN score ELSE Min(score, Half(t))

\* One frame of the reconstruction loop (lines 161-166).
SmoothedScore(score, is_positive, t) ==
    IF is_positive # 0 THEN Max(score, t) ELSE Min(score, Half(t))

\* Fault variant of Reconstruct: scores zipped against binary[1:].
ReconstructShifted(s, b, t) ==
    [i \in 1..Min(Len(s), Len(b) - 1) |-> SmoothedScore(s[i], b[i + 1], t)]

\* smoothed = [...] over zip(scores, binary)
Reconstruct(s, b, t) ==
    [i \in 1..Min(Len(s), Len(b)) |-> SmoothedScore(s[i], b[i], t)]

\* The whole function; the record keeps the intermediate values of `binary`.
postprocess_frame_scores(s, t, minGap, minSpike, minEvent) ==
    IF Len(s) = 0
    THEN [binarized |-> <<>>, gap_filled |-> <<>>, total |-> 0,
          binary |-> <<>>, smoothed |-> s]
    ELSE LET b0 == Binarize(s, t)
             b1 == FillGaps(b0, 0, minGap)
             segs == PositiveSegments(b1, 0)
             total == TotalPositive(segs)
             b2 == RemoveSpikes(b1, segs, total, minSpike, minEvent)
         IN  [binarized |-> b0, gap_filled |-> b1, total |-> total,
              binary |-> b2, smoothed |-> Reconstruct(s, b2, t)]

\* ------------------------------------------- concurrent calls of the smoother

\* Fault variant of Frame: `binary` is one module-level list that every
\* call shares.
FrameShared(i) == 1

\* The frame that holds the locals of call i: each call has its own.
Frame(i) == i

\* A call of postprocess_frame_scores about to run its first statement.
\* `given` keeps the values of the caller's list at the time of the call.
Invocation(s, t, g, k, e) ==
    [pc |-> "binarize", given |-> s, scores |-> s, threshold |-> t,
     min_gap_frames |-> g, min_spike_frames |-> k, min_event_frames |-> e,
     binary |-> <<>>, result |-> <<>>]

\* The next block of statements of call i: lines 89-92, 97-123, 128-153,
\* 158-168. The function assigns to its locals only.
StepOf(inv, i) ==
    LET me == inv[i]
        f == Frame(i)
        b == inv[f].binary
    IN  IF me.pc = "binarize"
        THEN IF Len(me.scores) = 0
             THEN [inv EXCEPT ![i].result = me.scores, ![i].pc = "done"]
             ELSE [inv EXCEPT ![f].binary = Binarize(me.scores, me.threshold),
                              ![i].pc = "fill"]
        ELSE IF me.pc = "fill"
        THEN [inv EXCEPT ![f].binary = FillGaps(b, 0, me.min_gap_frames),
                         ![i].pc = "spikes"]
        ELSE IF me.pc = "spikes"
        THEN LET segs == PositiveSegments(b, 0)
             IN  [inv EXCEPT ![f].binary =
                                 RemoveSpikes(b, segs, TotalPositive(segs),
                                              me.min_spike_frames,
                                              me.min_event_frames),
                             ![i].pc = "reconstruct"]
        ELSE [inv EXCEPT ![i].result = Reconstruct(me.scores, b, me.threshold),
                         ![i].pc = "done"]

\* ------------------------------------------------------ window preparation

\* Fault variant of CeilDiv: integer (floor) division.
CeilDivFloor(a, b) == a \div b

\* int(np.ceil(a / b)) for positive integers a, b.
CeilDiv(a, b) == (a + b - 1) \div b

\* Fault variant of Truncate: keeps the last k samples (a[-k:]).
TruncateTail(a, k) == SubSeq(a, Len(a) - Min(Len(a), k) + 1, Len(a))

\* audio_array[:k]
Truncate(a, k) == SubSeq(a, 1, Min(Len(a), k))

\* Fault variant of Tile: the buffer followed by silence.
TileSilence(a, reps) ==
    IF reps <= 0 THEN <<>> ELSE a \o [i \in 1..((reps - 1) * Len(a)) |-> 0]

\* np.tile(a, reps)
RECURSIVE Tile(_, _)
Tile(a, reps) == IF reps <= 0 THEN <<>> ELSE a \o Tile(a, reps - 1)

\* Lines 638-653 (and 798-810): limit duration, then tile to EXPECTED_SAMPLES.
\* The result is the outcome and the array handed to the model.
PrepareWindow(a) ==
    LET max_samples == SAMPLE_RATE * MAX_DURATION_SECONDS
        limited == IF Len(a) > max_samples THEN Truncate(a, max_samples) ELSE a
    IN  IF Len(limited) < EXPECTED_SAMPLES
        THEN IF Len(limited) = 0
             THEN [outcome |-> "ZeroDivisionError", audio_array |-> <<>>]
             ELSE LET repeats_needed == CeilDiv(EXPECTED_SAMPLES, Len(limited))
                  IN  [outcome |-> "ok",
                       audio_array |->
                           Truncate(Tile(limited, repeats_needed), EXPECTED_SAMPLES)]
        ELSE [outcome |-> "ok", audio_array |-> limited]

\* ------------------------------------------------------ rounding and means

\* round(num / den) for den > 0: the nearest integer, a tie to the even one.
RoundDiv(num, den) ==
    LET q == num \div den
        r == num - q * den
    IN  IF 2 * r < den THEN q
        ELSE IF 2 * r > den THEN q + 1
        ELSE IF q % 2 = 0 THEN q ELSE q + 1

\* round(num / den, 4): the nearest multiple of Grid.
Round4(num, den) == Grid * RoundDiv(num, den * Grid)

\* [round(s, 4) for s in row]
RoundSeq(row) == [i \in 1..Len(row) |-> Round4(row[i], 1)]

RECURSIVE Sum(_)
Sum(s) == IF Len(s) = 0 THEN 0 ELSE Head(s) + Sum(Tail(s))

RECURSIVE MaxOf(_)
MaxOf(s) == IF Len(s) = 1 THEN Head(s) ELSE Max(Head(s), MaxOf(Tail(s)))

\* A float that may be nan: np.mean of an empty list is nan, and
\* round(nan, 4) is nan.
Float(x) == [nan |-> FALSE, value |-> x]

NaN == [nan |-> TRUE, value |-> 0]

\* Python's None; no dict of the model is empty, so the two never meet.
None == <<>>

\* The set of the elements of a list.
Elements(list) == {list[i] : i \in 1..Len(list)}

\* The row a dict filled in a loop over enumerate(prompt_list) keeps for a
\* prompt: the one of its last occurrence.
LastIndex(prompt_list, prompt) ==
    CHOOSE j \in 1..Len(prompt_list) :
        /\ prompt_list[j] = prompt
        /\ \A k \in (j + 1)..Len(prompt_list) : prompt_list[k] # prompt

\* ---------------------------------------------------- frame-wise inference

\* frame_scores[prompt] = [round(s, 4) for s in scores_per_frame]
FrameScores(prompt_list, local_sim_np) ==
    [prompt \in Elements(prompt_list) |->
        RoundSeq(local_sim_np[LastIndex(prompt_list, prompt)])]

\* Fault variant of GlobalScore: the maximum across frames.
GlobalScoreMax(row) == Round4(MaxOf(row), 1)

\* round(float(np.mean(local_sim_np[i])), 4)
GlobalScore(row) == Round4(Sum(row), Len(row))

GlobalScores(prompt_list, local_sim_np) ==
    [prompt \in Elements(prompt_list) |->
        GlobalScore(local_sim_np[LastIndex(prompt_list, prompt)])]

\* Fault variant of LabelSeries: the series of the first prompt, whatever
\* the prompt.
LabelSeriesFirst(frame_scores, prompt_list, prompt) ==
    frame_scores[prompt_list[1]]

\* frame_scores[prompt], the argument of postprocess_frame_scores.
LabelSeries(frame_scores, prompt_list, prompt) == frame_scores[prompt]

\* The loop of lines 871-879 for one prompt.
SmoothedLabel(frame_scores, prompt_list, prompt, t) ==
    RoundSeq(postprocess_frame_scores(
                 LabelSeries(frame_scores, prompt_list, prompt), t,
                 MIN_GAP_FRAMES, MIN_SPIKE_FRAMES, MIN_EVENT_FRAMES).smoothed)

\* Fault variant of SmoothedFrameScores: smoothing whatever the form says.
SmoothedFrameScoresAlways(frame_scores, prompt_list, postprocess, t) ==
    [prompt \in Elements(prompt_list) |->
        SmoothedLabel(frame_scores, prompt_list, prompt, t)]

\* Lines 866-879: smoothed_frame_scores, None unless postprocess is set.
SmoothedFrameScores(frame_scores, prompt_list, postprocess, t) ==
    IF postprocess
    THEN [prompt \in Elements(prompt_list) |->
             SmoothedLabel(frame_scores, prompt_list, prompt, t)]
    ELSE None

\* One call of the model, as the handler's record of it.
ModelCall(audio_tensor) ==
    [fn |-> "get_local_similarity", audio |-> audio_tensor]

\* One call of the smoother, as the handler's record of it.
SmoothCall(prompt) == [fn |-> "postprocess_frame_scores", label |-> prompt]

\* The smoother's calls of one request to /classify-local, in order.
SmoothCalls(prompt_list, postprocess) ==
    IF postprocess
    THEN [j \in 1..Len(prompt_list) |-> SmoothCall(prompt_list[j])]
    ELSE <<>>

\* /classify-local from the tensor to the response (lines 817-910).
classify_audio_local(audio_tensor, req, local_sim_np) ==
    LET frame_scores == FrameScores(req.prompt_list, local_sim_np)
    IN  [calls |-> <<ModelCall(audio_tensor)>>
                       \o SmoothCalls(req.prompt_list, req.postprocess),
         response |->
            [frame_scores |-> frame_scores,
             smoothed_frame_scores |->
                 SmoothedFrameScores(frame_scores, req.prompt_list,
                                     req.postprocess, req.threshold),
             global_scores |-> GlobalScores(req.prompt_list, local_sim_np),
             prompts |-> req.prompt_list,
             num_frames |-> Len(local_sim_np[1]),
             postprocessed |-> req.postprocess]]

\* ------------------------------------------------------- chunked analysis

\* a[:k] with Python's reading of a negative k.
SliceTo(a, k) ==
    IF k >= 0 THEN SubSeq(a, 1, Min(Len(a), k))
    ELSE SubSeq(a, 1, Max(Len(a) + k, 0))

\* a[lo:hi] for 0 <= lo <= hi: Python clamps hi to len(a).
Slice(a, lo, hi) == SubSeq(a, lo + 1, Min(hi, Len(a)))

\* Lines 1086-1088. Durations are whole seconds, so that
\* min(max_duration_s, actual_duration) * SAMPLE_RATE is exact.
LimitDuration(full_audio, max_duration_s) ==
    LET max_samples == Min(max_duration_s * SAMPLE_RATE, Len(full_audio))
    IN  IF Len(full_audio) > max_samples
        THEN SliceTo(full_audio, max_samples)
        ELSE full_audio

\* list(range(start, stop, step)) for step > 0.
RECURSIVE PyRange(_, _, _)
PyRange(start, stop, step) ==
    IF start >= stop THEN <<>>
    ELSE <<start>> \o PyRange(start + step, stop, step)

\* Fault variant of EndSample: the end is not clamped to the buffer.
EndSampleUnclamped(start_sample, chunk_samples, full_audio) ==
    start_sample + chunk_samples

\* end_sample = min(start_sample + chunk_samples, len(full_audio))
EndSample(start_sample, chunk_samples, full_audio) ==
    Min(start_sample + chunk_samples, Len(full_audio))

\* Lines 1103-1105: a chunk shorter than the window is tiled; a longer one
\* is left as it is.
TileChunk(chunk_audio) ==
    IF Len(chunk_audio) < EXPECTED_SAMPLES
    THEN LET repeats_needed == CeilDiv(EXPECTED_SAMPLES, Len(chunk_audio))
         IN  Truncate(Tile(chunk_audio, repeats_needed), EXPECTED_SAMPLES)
    ELSE chunk_audio

\* round(sample / SAMPLE_RATE, 2), in hundredths of a second.
TimeS(sample) == RoundDiv(100 * sample, SAMPLE_RATE)

\* The model's output for call number i (0-based).
ModelOutput(outputs, i) == outputs[(i % Len(outputs)) + 1]

\* One iteration of the loop of lines 1098-1137.
ChunkResult(full_audio, i, start_sample, chunk_samples, prompt_list, local_sim_np) ==
    LET end_sample == EndSample(start_sample, chunk_samples, full_audio)
        chunk_audio == Slice(full_audio, start_sample, end_sample)
    IN  [chunk_index |-> i,
         start_sample |-> start_sample,
         end_sample |-> end_sample,
         audio_tensor |-> TileChunk(chunk_audio),
         start_time_s |-> TimeS(start_sample),
         end_time_s |-> TimeS(end_sample),
         global_scores |-> GlobalScores(prompt_list, local_sim_np),
         frame_scores |-> FrameScores(prompt_list, local_sim_np)]

\* Lines 1142-1146 for one prompt.
AggregatedScore(chunk_results, prompt) ==
    LET all_chunk_scores ==
            [i \in 1..Len(chunk_results) |-> chunk_results[i].global_scores[prompt]]
    IN  IF Len(all_chunk_scores) = 0
        THEN NaN
        ELSE Float(Round4(Sum(all_chunk_scores), Len(all_chunk_scores)))

\* /analyze-youtube from the loaded audio to the response (lines 1082-1164).
\* chunk_samples = 0 makes range() raise ValueError; a negative step gives
\* an empty range.
analyze_youtube(loaded, req, outputs) ==
    LET full_audio == LimitDuration(loaded, req.max_duration_s)
        chunk_samples == req.chunk_duration_s * SAMPLE_RATE
    IN  IF chunk_samples = 0
        THEN [outcome |-> "ValueError", calls |-> <<>>, response |-> None]
        ELSE LET starts == IF chunk_samples < 0 THEN <<>>
                           ELSE PyRange(0, Len(full_audio), chunk_samples)
                 chunk_results ==
                     [k \in 1..Len(starts) |->
                         ChunkResult(full_audio, k - 1, starts[k], chunk_samples,
                                     req.prompt_list, ModelOutput(outputs, k - 1))]
             IN  [outcome |-> "ok",
                  calls |-> [k \in 1..Len(starts) |->
                                ModelCall(chunk_results[k].audio_tensor)],
                  response |->
                     [num_chunks |-> Len(chunk_results),
                      analyzed_duration_s |-> TimeS(Len(full_audio)),
                      prompts |-> req.prompt_list,
                      chunks |-> chunk_results,
                      aggregated_scores |->
                          [prompt \in Elements(req.prompt_list) |->
                              AggregatedScore(chunk_results, prompt)]]]

\* ------------------------------------- yt-dlp downloads and prepared videos

\* A file of a download directory: f"{stem}.{ext}", followed by ".part"
\* while yt-dlp has not finished writing it.
FileName(stem, ext, part) == [stem |-> stem, ext |-> ext, part |-> part]

\* d.get(key, default)
Get(d, key, default) == IF key \in DOMAIN d THEN d[key] ELSE default

\* Lines 1011-1015 and 1252-1256.
player_client_strategies ==
    <<<<"ios", "web">>, <<"android", "web">>, <<"tv", "web">>>>

\* The locals of the retry loop before its first iteration (lines 1006-1016,
\* 1257). attempts keeps, for each iteration, the strategy it tried, the
\* files it found in the directory, the files extract_info wrote and whether
\* extract_info returned.
NewDownload ==
    [next |-> 1, done |-> FALSE, last_error |-> None,
     video_title |-> "Unknown", video_duration |-> 0, attempts |-> <<>>]

KeepFiles(d, dir) == d

\* The except branch's clean-up (lines 1029-1033, 1271-1275): every regular
\* file of the directory is removed; yt-dlp writes nothing but regular files.
RemoveFiles(d, dir) == [d EXCEPT ![dir] = {}]

\* One iteration of the loop (lines 1017-1034, 1258-1276). result is what
\* extract_info did: the files it wrote, and the info it returned or the
\* exception it raised. A success breaks out of the loop; the third failure
\* ends it.
DownloadIteration(dl, d, dir, result) ==
    LET strategy == player_client_strategies[dl.next]
        written == [d EXCEPT ![dir] = @ \cup result.files]
        attempts == Append(dl.attempts,
                           [strategy |-> strategy, found |-> d[dir],
                            wrote |-> result.files, ok |-> result.ok])
    IN  IF result.ok
        THEN [download |->
                  [next |-> dl.next, done |-> TRUE, last_error |-> None,
                   video_title |-> Get(result.info, "title", "Unknown"),
                   video_duration |-> Get(result.info, "duration", 0),
                   attempts |-> attempts],
              disk |-> written]
        ELSE [download |->
                  [dl EXCEPT !.next = @ + 1,
                             !.done = dl.next = Len(player_client_strategies),
                             !.last_error = result.error,
                             !.attempts = attempts],
              disk |-> RemoveFiles(written, dir)]

\* "sign in" in error_str or "bot" in error_str or "confirm" in error_str,
\* an exception being the set of phrases its lower-cased text contains.
BotDetection(error) == error.phrases \cap {"sign in", "bot", "confirm"} # {}

\* raise HTTPException(status_code=502, ...) of lines 1036-1047, 1278-1289.
DownloadFailed(last_error) ==
    [status_code |-> 502,
     detail |-> IF BotDetection(last_error)
                THEN "YouTube is blocking this request (bot detection)."
                ELSE "Failed to download",
     error |-> IF BotDetection(last_error) THEN None ELSE last_error]

\* The files f with f.startswith(stem + ".") and not f.endswith(".part")
\* (lines 1057-1060, 1295-1298); the handler takes the first one listdir gives.
Downloaded(files, stem) == {f \in files : f.stem = stem /\ ~f.part}

KeepTree(d, dir) == d

\* shutil.rmtree(dir, ignore_errors=True), the removal succeeding.
rmtree(d, dir) == [x \in DOMAIN d \ {dir} |-> d[x]]

\* os.makedirs(dir, exist_ok=True)
makedirs(d, dir) ==
    IF dir \in DOMAIN d THEN d ELSE [x \in DOMAIN d \cup {dir} |->
                                        IF x = dir THEN {} ELSE d[x]]

\* tempfile.mkdtemp(prefix="sonotag_yt_"): a directory that did not exist.
mkdtemp(d) ==
    CHOOSE dir \in {[sonotag_yt |-> suffix] : suffix \in {"a", "b"}} :
        dir \notin DOMAIN d

\* os.path.exists(path) for the path of a file
exists(d, path) == path.dir \in DOMAIN d /\ path.name \in d[path.dir]

\* url.strip(), a URL being its scheme, its host and whether whitespace
\* surrounds it; the URL without scheme and host is the empty string.
strip(url) == [url EXCEPT !.padded = FALSE]

\* not url
Blank(url) == ~url.padded /\ url.scheme = "" /\ url.host = ""

\* re.match(r'^https?://(www\.)?(youtube\.com|youtu\.be|m\.youtube\.com)/', url)
\* (line 1210) on a stripped URL.
YoutubeUrl(url) ==
    /\ ~url.padded
    /\ url.scheme \in {"http", "https"}
    /\ url.host \in {"youtube.com", "youtu.be", "m.youtube.com",
                     "www.youtube.com", "www.youtu.be", "www.m.youtube.com"}

\* hashlib.md5(url.encode()).hexdigest()[:12] (line 1223): one id per URL,
\* two URLs of the model never sharing their first twelve digits.
md5(url) == [md5 |-> url]

\* os.path.join(tempfile.gettempdir(), f"sonotag_video_{video_id}")
VideoDir(video_id) == [sonotag_video |-> video_id]

NeverPrepared(cache, video_id) == FALSE

\* video_id in _prepared_videos (line 1226)
IsPrepared(cache, video_id) == video_id \in DOMAIN cache

PrepareVideoResponse(video_id, title, duration_s) ==
    [video_id |-> video_id, title |-> title, duration_s |-> duration_s,
     video_url |-> [stream_video |-> video_id], ready |-> TRUE]

\* The cache hit of lines 1226-1235.
CachedVideo(cache, video_id) ==
    PrepareVideoResponse(video_id, cache[video_id].title,
                         cache[video_id].duration_s)

\* _prepared_videos[video_id] = {...} (lines 1310-1315)
StoreVideo(cache, video_id, entry) ==
    [x \in DOMAIN cache \cup {video_id} |->
        IF x = video_id THEN entry ELSE cache[x]]

\* /prepare-youtube-video after the loop (lines 1278-1325).
StorePrepared(cache, d, video_id, dl) ==
    LET video_dir == VideoDir(video_id)
        found == Downloaded(d[video_dir], "video")
    IN  IF dl.last_error # None
        THEN {[cache |-> cache, response |-> DownloadFailed(dl.last_error)]}
        ELSE IF found = {}
        THEN {[cache |-> cache,
               response |-> [status_code |-> 500,
                             detail |-> "Failed to find downloaded video file"]]}
        ELSE {[cache |->
                   StoreVideo(cache, video_id,
                              [title |-> dl.video_title,
                               duration_s |-> dl.video_duration,
                               file_path |-> [dir |-> video_dir, name |-> f],
                               dir_path |-> video_dir]),
               response |-> PrepareVideoResponse(video_id, dl.video_title,
                                                 dl.video_duration)]
              : f \in found}

\* content_type_map.get(ext, "video/mp4") (lines 1353-1359)
ContentType(ext) ==
    CASE ext = "webm" -> "video/webm"
      [] ext = "mkv" -> "video/x-matroska"
      [] ext = "mov" -> "video/quicktime"
      [] OTHER -> "video/mp4"

\* /stream-video/{video_id} (lines 1328-1369).
stream_video(cache, d, video_id) ==
    IF video_id \notin DOMAIN cache
    THEN [status_code |-> 404,
          detail |-> "Video not found. Please prepare it first."]
    ELSE IF ~exists(d, cache[video_id].file_path)
    THEN [status_code |-> 404, detail |-> "Video file not found on disk."]
    ELSE [status_code |-> 200, path |-> cache[video_id].file_path,
          media_type |-> ContentType(cache[video_id].file_path.name.ext)]

KeepEntry(cache, video_id) == cache

\* _prepared_videos.pop(video_id)
pop(cache, video_id) == [x \in DOMAIN cache \ {video_id} |-> cache[x]]

\* /cleanup-video/{video_id} (lines 1372-1386).
cleanup_video(cache, d, video_id) ==
    IF video_id \notin DOMAIN cache
    THEN [cache |-> cache, disk |-> d, response |-> [status |-> "not_found"]]
    ELSE LET dir_path == Get(cache[video_id], "dir_path", None)
         IN  [cache |-> pop(cache, video_id),
              disk |-> IF dir_path # None /\ dir_path \in DOMAIN d
                       THEN rmtree(d, dir_path) ELSE d,
              response |-> [status |-> "cleaned_up", video_id |-> video_id]]

\* ------------------------------------------------------------------ inputs

Thresholds == {-4, 0, 4}

\* Score levels around a threshold t. For t > 0: below t * 0.5, between
\* t * 0.5 and t, at t, above t. For t < 0, where t < t * 0.5: below t, at t,
\* between t and t * 0.5, above t * 0.5. For t = 0: below, at and above t.
ScoreLevels(t) == {Half(t) - 1, Half(t) + 1, t - 1, t, t + 1}

FrameCounts == 0..MaxParam

Call(s, t, g, k, e) ==
    [scores |-> s, threshold |-> t, min_gap_frames |-> g,
     min_spike_frames |-> k, min_event_frames |-> e]

\* The worked examples of the specification, with the source's defaults
\* where the example leaves a parameter open.
GapExampleScores == <<5, 1, 1, 1, 5>>

GateExampleScores == <<5, 1, 1, 1, 1, 1, 1, 1, 1, 1, 1, 5>>

EndToEndScores == <<10, 20, 90, 95, 10, 92, 30>>

Examples ==
    {Call(GapExampleScores, 4, 3, MIN_SPIKE_FRAMES, MIN_EVENT_FRAMES),
     Call(GapExampleScores, 4, 4, MIN_SPIKE_FRAMES, MIN_EVENT_FRAMES),
     Call(GateExampleScores, 4, MIN_GAP_FRAMES, 2, 10),
     Call(GateExampleScores, 4, MIN_GAP_FRAMES + 1, 2, 10),
     Call(EndToEndScores, 50, 2, 2, 3)}

Samples == {-1, 0, 1}

\* Longest decoded buffer drawn.
MaxBuffer == EXPECTED_SAMPLES + ExtraSamples

\* A buffer of n samples, each one named by its position.
Ramp(n) == [i \in 1..n |-> i]

\* Raw frame scores: they round to 0, Grid and 2 * Grid at the base grid.
RawLevels == {1, 2, 5}

\* The threshold field of /classify-local; even, so that Half is exact.
LocalThresholds == {2, 8}

PromptLists == {<<"a">>, <<"a", "b">>, <<"b", "a">>}

\* Raw frame scores of the chunks of a video.
YoutubeLevels == {1, 5}

\* max_duration_s in whole seconds: negative, zero, short, beyond the audio.
MaxDurations == {-1, 0, 1, MaxAudio}

ChunkDurations == (-1)..MaxChunkSeconds

\* Arguments of the concurrent calls: threshold 4, scores below half of it,
\* between half and it, and above it.
ConcurrentLevels == {1, 3, 5}

ConcurrentThreshold == 4

\* (min_gap_frames, min_spike_frames, min_event_frames) of a concurrent call.
ConcurrentParams ==
    {<<0, 0, 0>>, <<2, 2, 0>>,
     <<MIN_GAP_FRAMES, MIN_SPIKE_FRAMES, MIN_EVENT_FRAMES>>}

\* The URLs of the requests to /prepare-youtube-video: a YouTube link, the
\* same link with whitespace around it, a link to another site, and blanks.
YoutubeLink == [padded |-> FALSE, scheme |-> "https", host |-> "youtu.be"]

Urls ==
    {YoutubeLink,
     [YoutubeLink EXCEPT !.padded = TRUE],
     [padded |-> FALSE, scheme |-> "https", host |-> "example.com"],
     [padded |-> TRUE, scheme |-> "", host |-> ""]}

\* The ids of the requests to /stream-video and /cleanup-video.
VideoIds == {md5(url) : url \in Urls}

\* The exceptions extract_info raises.
Errors == {[phrases |-> {"sign in", "confirm", "bot"}],
           [phrases |-> {"video unavailable"}]}

\* The info dicts extract_info returns, with and without title and duration.
Infos == {[title |-> "Song", duration |-> 3], [id |-> "x"]}

\* The extension yt-dlp gives the file of an audio or a video download.
Ext(stem) == IF stem = "audio" THEN "webm" ELSE "mp4"

\* What one call of extract_info can do: return an info, having written the
\* file or not, or raise, having left a partial file or not.
YtDlpResults(stem) ==
    {[ok |-> TRUE, files |-> files, info |-> info] :
        files \in {{FileName(stem, Ext(stem), FALSE)}, {}}, info \in Infos}
    \cup
    {[ok |-> FALSE, files |-> files, error |-> error] :
        files \in {{FileName(stem, Ext(stem), TRUE)}, {}}, error \in Errors}

\* The requests to /analyze-youtube whose download is followed step by step.
DownloadRequests ==
    {[prompt_list |-> <<"a">>, chunk_duration_s |-> c, max_duration_s |-> MaxAudio] :
        c \in {0, MAX_DURATION_SECONDS}}


\* ----------------------------------------------------------------- actions

\* No call of postprocess_frame_scores has returned.
NotSmoothed ==
    /\ binarized = <<>>
    /\ gap_filled = <<>>
    /\ total_positive_frames = 0
    /\ binary = <<>>
    /\ smoothed = <<>>

\* No window has been prepared.
NotPrepared ==
    /\ audio_array = <<>>
    /\ outcome = "none"

\* The globals before lifespan has run (lines 32-33).
NoModel ==
    /\ flam_model = "None"
    /\ text_embeddings = "None"
    /\ startup_log = "none"

\* The globals after a successful start (lines 220-231).
ModelLoaded ==
    /\ flam_model = "OpenFLAM"
    /\ text_embeddings = "cached"
    /\ startup_log = "FLAM model loaded."

\* No download directory, no prepared video, no download under way.
NoVideo ==
    /\ disk = <<>>
    /\ temp_dir = None
    /\ _prepared_videos = <<>>
    /\ download = NewDownload

\* No inference has been asked for.
NoInference ==
    /\ request = None
    /\ model_out = <<>>
    /\ calls = <<>>
    /\ response = None

Arguments(s, t, g, k, e) ==
    /\ scores = s
    /\ threshold = t
    /\ min_gap_frames = g
    /\ min_spike_frames = k
    /\ min_event_frames = e

\* A caller about to smooth a series of up to MaxLen frames, or one of the
\* worked examples.
InitSmooth ==
    /\ pc = "smooth"
    /\ \/ \E t \in Thresholds, n \in 0..MaxLen, g \in FrameCounts,
             k \in FrameCounts, e \in FrameCounts :
              \E s \in [1..n -> ScoreLevels(t)] : Arguments(s, t, g, k, e)
       \/ \E c \in Examples :
              Arguments(c.scores, c.threshold, c.min_gap_frames,
                        c.min_spike_frames, c.min_event_frames)
    /\ NotSmoothed
    /\ endpoint = "none"
    /\ decoded = <<>>
    /\ NotPrepared
    /\ NoInference
    /\ NoModel
    /\ invocations = <<>>
    /\ NoVideo
    /\ yt_dlp = "installed"

\* A request to /classify or /classify-local whose audio has been decoded.
InitWindow ==
    /\ pc = "classify"
    /\ endpoint \in {"classify", "classify-local"}
    /\ \E n \in 0..MaxBuffer : decoded \in [1..n -> Samples]
    /\ NotPrepared
    /\ Arguments(<<>>, 0, 0, 0, 0)
    /\ NotSmoothed
    /\ NoInference
    /\ ModelLoaded
    /\ invocations = <<>>
    /\ NoVideo
    /\ yt_dlp = "installed"

\* A request to /classify-local, decoded, with the scores the model will
\* return for its window.
InitLocal ==
    /\ pc = "classify"
    /\ endpoint = "classify-local"
    /\ decoded \in {Ramp(n) : n \in {0, 1, MaxBuffer}}
    /\ NotPrepared
    /\ Arguments(<<>>, 0, 0, 0, 0)
    /\ NotSmoothed
    /\ \E prompt_list \in PromptLists, postprocess \in BOOLEAN,
          t \in LocalThresholds :
           request = [prompt_list |-> prompt_list, postprocess |-> postprocess,
                      threshold |-> t]
    /\ \E num_frames \in 1..MaxFrames :
           model_out \in [1..1 -> [1..Len(request.prompt_list) ->
                                      [1..num_frames -> RawLevels]]]
    /\ calls = <<>>
    /\ response = None
    /\ ModelLoaded
    /\ invocations = <<>>
    /\ NoVideo
    /\ yt_dlp = "installed"

\* A request to /analyze-youtube whose audio has been downloaded and loaded,
\* with the scores the model will return chunk after chunk.
InitYoutube ==
    /\ pc = "analyze"
    /\ endpoint = "analyze-youtube"
    /\ decoded \in {Ramp(n) : n \in 0..MaxAudio}
    /\ NotPrepared
    /\ Arguments(<<>>, 0, 0, 0, 0)
    /\ NotSmoothed
    /\ \E c \in ChunkDurations, m \in MaxDurations :
           request = [prompt_list |-> <<"a">>, chunk_duration_s |-> c,
                      max_duration_s |-> m]
    /\ \E num_frames \in 1..MaxFrames :
           model_out \in [1..MaxCalls -> [1..1 -> [1..num_frames -> YoutubeLevels]]]
    /\ calls = <<>>
    /\ response = None
    /\ ModelLoaded
    /\ invocations = <<>>
    /\ temp_dir = mkdtemp(<<>>)
    /\ \E r \in {DownloadIteration(NewDownload, makedirs(<<>>, temp_dir), temp_dir,
                                    [ok |-> TRUE,
                                     files |-> {FileName("audio", Ext("audio"), FALSE)},
                                     info |-> [title |-> "Song", duration |-> 3]])} :
           /\ disk = r.disk
           /\ download = r.download
    /\ _prepared_videos = <<>>
    /\ yt_dlp = "installed"

InitInference == InitLocal \/ InitYoutube

\* Nothing but the process exists: no call, no request.
Idle ==
    /\ Arguments(<<>>, 0, 0, 0, 0)
    /\ NotSmoothed
    /\ endpoint = "none"
    /\ decoded = <<>>
    /\ NotPrepared
    /\ NoInference

\* The process before lifespan runs.
InitService ==
    /\ pc = "startup"
    /\ Idle
    /\ NoModel
    /\ invocations = <<>>
    /\ NoVideo
    /\ yt_dlp \in {"installed", "missing"}

\* Two calls of postprocess_frame_scores in flight at once.
InitConcurrent ==
    /\ pc = "calls"
    /\ Idle
    /\ NoModel
    /\ NoVideo
    /\ yt_dlp = "installed"
    /\ \E n1 \in 0..MaxCallLen, n2 \in 0..MaxCallLen,
          p1 \in ConcurrentParams, p2 \in ConcurrentParams :
           \E s1 \in [1..n1 -> ConcurrentLevels], s2 \in [1..n2 -> ConcurrentLevels] :
               invocations =
                   <<Invocation(s1, ConcurrentThreshold, p1[1], p1[2], p1[3]),
                     Invocation(s2, ConcurrentThreshold, p2[1], p2[2], p2[3])>>

\* The service after startup, no request received yet.
InitVideo ==
    /\ pc = "serving"
    /\ Idle
    /\ ModelLoaded
    /\ invocations = <<>>
    /\ NoVideo
    /\ yt_dlp \in {"installed", "missing"}

\* A request to /analyze-youtube right after mkdtemp (line 994).
InitDownload ==
    /\ pc = "download"
    /\ endpoint = "analyze-youtube"
    /\ decoded = <<>>
    /\ NotPrepared
    /\ Arguments(<<>>, 0, 0, 0, 0)
    /\ NotSmoothed
    /\ request \in DownloadRequests
    /\ model_out = <<>>
    /\ calls = <<>>
    /\ response = None
    /\ ModelLoaded
    /\ invocations = <<>>
    /\ temp_dir = mkdtemp(<<>>)
    /\ disk = makedirs(<<>>, temp_dir)
    /\ _prepared_videos = <<>>
    /\ download = NewDownload
    /\ yt_dlp = "installed"

InitYoutubeVideo == InitVideo \/ InitDownload

Init ==
    \/ InitSmooth
    \/ InitWindow
    \/ InitInference
    \/ InitService
    \/ InitConcurrent
    \/ InitYoutubeVideo

\* One call of postprocess_frame_scores.
Smooth ==
    /\ pc = "smooth"
    /\ \E r \in {postprocess_frame_scores(scores, threshold, min_gap_frames,
                                          min_spike_frames, min_event_frames)} :
        /\ binarized' = r.binarized
        /\ gap_filled' = r.gap_filled
        /\ total_positive_frames' = r.total
        /\ binary' = r.binary
        /\ smoothed' = r.smoothed
    /\ pc' = "smoothed"
    /\ UNCHANGED <<scores, threshold, min_gap_frames, min_spike_frames,
                   min_event_frames>>
    /\ UNCHANGED windowVars
    /\ UNCHANGED inferenceVars
    /\ UNCHANGED globalVars
    /\ UNCHANGED invocations
    /\ UNCHANGED videoVars

\* The window preparation shared by the two handlers.
Prepare ==
    /\ \E r \in {PrepareWindow(decoded)} :
        /\ audio_array' = r.audio_array
        /\ outcome' = r.outcome
    /\ pc' = "prepared"
    /\ UNCHANGED <<endpoint, decoded>>
    /\ UNCHANGED smoothVars
    /\ UNCHANGED inferenceVars
    /\ UNCHANGED globalVars
    /\ UNCHANGED invocations
    /\ UNCHANGED videoVars

\* /classify from the decoded audio to the tensor conversion.
ClassifyAudio ==
    /\ pc = "classify"
    /\ endpoint = "classify"
    /\ Prepare

\* /classify-local from the decoded audio to the tensor conversion.
ClassifyAudioLocal ==
    /\ pc = "classify"
    /\ endpoint = "classify-local"
    /\ Prepare

\* /classify-local from the tensor conversion to the response.
LocalInference ==
    /\ pc = "prepared"
    /\ endpoint = "classify-local"
    /\ outcome = "ok"
    /\ model_out # <<>>
    /\ \E r \in {classify_audio_local(audio_array, request, ModelOutput(model_out, 0))} :
        /\ calls' = r.calls
        /\ response' = r.response
    /\ pc' = "responded"
    /\ UNCHANGED <<request, model_out>>
    /\ UNCHANGED windowVars
    /\ UNCHANGED smoothVars
    /\ UNCHANGED globalVars
    /\ UNCHANGED invocations
    /\ UNCHANGED videoVars

\* /analyze-youtube from the loaded audio to the response, through the
\* finally clause of lines 1148-1150.
AnalyzeYoutube ==
    /\ pc = "analyze"
    /\ endpoint = "analyze-youtube"
    /\ \E r \in {analyze_youtube(decoded, request, model_out)} :
        /\ outcome' = r.outcome
        /\ calls' = r.calls
        /\ response' = r.response
    /\ disk' = rmtree(disk, temp_dir)
    /\ pc' = "analyzed"
    /\ UNCHANGED <<request, model_out>>
    /\ UNCHANGED <<endpoint, decoded, audio_array>>
    /\ UNCHANGED smoothVars
    /\ UNCHANGED globalVars
    /\ UNCHANGED invocations
    /\ UNCHANGED <<temp_dir, _prepared_videos, download>>

\* /analyze-youtube from the loaded audio to an exception raised by the
\* model on the first chunk (line 1112), through the finally clause.
InferenceFails ==
    /\ pc = "analyze"
    /\ endpoint = "analyze-youtube"
    /\ \E r \in {analyze_youtube(decoded, request, model_out)} :
        /\ r.calls # <<>>
        /\ calls' = SubSeq(r.calls, 1, 1)
    /\ outcome' = "Exception"
    /\ response' = None
    /\ disk' = rmtree(disk, temp_dir)
    /\ pc' = "analyzed"
    /\ UNCHANGED <<request, model_out>>
    /\ UNCHANGED <<endpoint, decoded, audio_array>>
    /\ UNCHANGED smoothVars
    /\ UNCHANGED globalVars
    /\ UNCHANGED invocations
    /\ UNCHANGED <<temp_dir, _prepared_videos, download>>

\* One block of statements of one of the calls in flight.
StepInvocation(i) ==
    /\ pc = "calls"
    /\ invocations[i].pc # "done"
    /\ invocations' = StepOf(invocations, i)
    /\ UNCHANGED pc
    /\ UNCHANGED videoVars
    /\ UNCHANGED smoothVars
    /\ UNCHANGED windowVars
    /\ UNCHANGED inferenceVars
    /\ UNCHANGED globalVars

FirstCallSteps == StepInvocation(1)

SecondCallSteps == StepInvocation(2)

\* lifespan up to its yield (lines 176-240): the import of openflam fails,
\* loading fails before or after flam_model is assigned, or all succeeds.
Lifespan ==
    /\ pc = "startup"
    /\ \/ /\ flam_model' = "OpenFLAM"
          /\ text_embeddings' = "cached"
          /\ startup_log' = "FLAM model loaded."
       \/ /\ startup_log' = "OpenFLAM not installed. Inference endpoints will return mock data."
          /\ UNCHANGED <<flam_model, text_embeddings>>
       \/ /\ startup_log' = "Failed to load FLAM model"
          /\ flam_model' \in {"None", "OpenFLAM"}
          /\ UNCHANGED text_embeddings
    /\ pc' = "serving"
    /\ UNCHANGED yt_dlp
    /\ UNCHANGED smoothVars
    /\ UNCHANGED windowVars
    /\ UNCHANGED inferenceVars
    /\ UNCHANGED invocations
    /\ UNCHANGED videoVars

\* raise HTTPException(status_code=503, detail=...)
Reject(detail) ==
    /\ pc' = "rejected"
    /\ outcome' = "HTTPException"
    /\ response' = [status_code |-> 503, detail |-> detail]
    /\ UNCHANGED <<decoded, model_out>>

\* /classify up to the decoded audio (lines 578-636).
ReceiveClassify ==
    /\ pc = "serving"
    /\ endpoint' = "classify"
    /\ \E prompts \in {"default", "custom"} :
        /\ request' = [prompts |-> prompts]
        /\ IF flam_model = "None"
           THEN Reject("FLAM model not loaded. Check server logs.")
           ELSE IF prompts = "default" /\ text_embeddings = "None"
           THEN Reject("Text embeddings not available. Check server logs.")
           ELSE /\ \E n \in 0..MaxBuffer : decoded' \in [1..n -> Samples]
                /\ pc' = "classify"
                /\ UNCHANGED <<outcome, response, model_out>>
    /\ UNCHANGED <<audio_array, calls>>
    /\ UNCHANGED smoothVars
    /\ UNCHANGED globalVars
    /\ UNCHANGED invocations
    /\ UNCHANGED videoVars

\* /classify-local up to the decoded audio (lines 752-796).
ReceiveClassifyLocal ==
    /\ pc = "serving"
    /\ endpoint' = "classify-local"
    /\ \E prompt_list \in PromptLists, postprocess \in BOOLEAN,
          t \in LocalThresholds :
           request' = [prompt_list |-> prompt_list, postprocess |-> postprocess,
                       threshold |-> t]
    /\ IF flam_model = "None"
       THEN Reject("FLAM model not loaded. Check server logs.")
       ELSE /\ \E n \in 0..MaxBuffer : decoded' \in [1..n -> Samples]
            /\ pc' = "classify"
            /\ UNCHANGED <<outcome, response, model_out>>
    /\ UNCHANGED <<audio_array, calls>>
    /\ UNCHANGED smoothVars
    /\ UNCHANGED globalVars
    /\ UNCHANGED invocations
    /\ UNCHANGED videoVars

\* /analyze-youtube up to the creation of its directory (lines 961-1008).
ReceiveAnalyzeYoutube ==
    /\ pc = "serving"
    /\ endpoint' = "analyze-youtube"
    /\ \E c \in ChunkDurations, m \in MaxDurations :
           request' = [prompt_list |-> <<"a">>, chunk_duration_s |-> c,
                       max_duration_s |-> m]
    /\ IF flam_model = "None"
       THEN /\ Reject("FLAM model not loaded. Check server logs.")
            /\ UNCHANGED videoVars
       ELSE IF yt_dlp = "missing"
       THEN /\ Reject("yt-dlp not installed. Run: pip install yt-dlp")
            /\ UNCHANGED videoVars
       ELSE /\ temp_dir' = mkdtemp(disk)
            /\ disk' = makedirs(disk, temp_dir')
            /\ download' = NewDownload
            /\ pc' = "download"
            /\ UNCHANGED <<outcome, response, decoded, model_out>>
            /\ UNCHANGED _prepared_videos
    /\ UNCHANGED <<audio_array, calls>>
    /\ UNCHANGED smoothVars
    /\ UNCHANGED globalVars
    /\ UNCHANGED invocations

\* The directory and the file stem of the download under way (lines 1002,
\* 1238-1246).
DownloadDir ==
    IF endpoint = "analyze-youtube" THEN temp_dir ELSE VideoDir(md5(request.url))

DownloadStem == IF endpoint = "analyze-youtube" THEN "audio" ELSE "video"

\* One iteration of the retry loop of /analyze-youtube or of
\* /prepare-youtube-video.
DownloadAttempt ==
    /\ pc = "download"
    /\ \E result \in YtDlpResults(DownloadStem) :
           \E r \in {DownloadIteration(download, disk, DownloadDir, result)} :
               /\ download' = r.download
               /\ disk' = r.disk
               /\ pc' = IF r.download.done THEN "downloaded" ELSE "download"
    /\ UNCHANGED <<temp_dir, _prepared_videos>>
    /\ UNCHANGED windowVars
    /\ UNCHANGED inferenceVars
    /\ UNCHANGED smoothVars
    /\ UNCHANGED globalVars
    /\ UNCHANGED invocations

\* raise HTTPException inside the try of line 996: the finally clause of
\* lines 1148-1150 runs before the request completes.
Abort(status_code, detail) ==
    /\ pc' = "analyzed"
    /\ outcome' = "HTTPException"
    /\ response' = detail @@ [status_code |-> status_code]
    /\ disk' = rmtree(disk, temp_dir)
    /\ UNCHANGED <<decoded, model_out>>

\* /analyze-youtube from the end of the loop to the loaded audio (lines
\* 1036-1080).
LoadYoutubeAudio ==
    /\ pc = "downloaded"
    /\ endpoint = "analyze-youtube"
    /\ IF download.last_error # None
       THEN \E r \in {DownloadFailed(download.last_error)} :
                Abort(r.status_code, r)
       ELSE IF Downloaded(disk[temp_dir], "audio") = {}
       THEN Abort(500, [detail |-> "Failed to find downloaded audio file."])
       ELSE \/ Abort(500, [detail |-> "Failed to load audio"])
            \/ /\ decoded' \in {Ramp(n) : n \in 0..MaxAudio}
               /\ \E num_frames \in 1..MaxFrames :
                      model_out' \in [1..MaxCalls ->
                                         [1..1 -> [1..num_frames -> YoutubeLevels]]]
               /\ pc' = "analyze"
               /\ UNCHANGED <<outcome, response, disk>>
    /\ UNCHANGED <<endpoint, audio_array, request, calls>>
    /\ UNCHANGED <<temp_dir, _prepared_videos, download>>
    /\ UNCHANGED smoothVars
    /\ UNCHANGED globalVars
    /\ UNCHANGED invocations

\* The handler returns or raises, and the server is ready for the next
\* request.
Respond(r) ==
    /\ pc' = "serving"
    /\ response' = r
    /\ outcome' = IF Get(r, "status_code", 200) >= 400
                  THEN "HTTPException" ELSE "ok"

\* /prepare-youtube-video up to the loop (lines 1191-1257): a rejected URL,
\* yt-dlp missing, a cache hit, or the directory made and the loop entered.
PrepareYoutubeVideo ==
    /\ pc = "serving"
    /\ endpoint' = "prepare-youtube-video"
    /\ \E url \in Urls :
        /\ request' = [url |-> url]
        /\ IF Blank(strip(url))
           THEN /\ Respond([status_code |-> 400, detail |-> "No URL provided"])
                /\ UNCHANGED disk
           ELSE IF ~YoutubeUrl(strip(url))
           THEN /\ Respond([status_code |-> 400, detail |-> "Invalid YouTube URL."])
                /\ UNCHANGED disk
           ELSE IF yt_dlp = "missing"
           THEN /\ Respond([status_code |-> 503,
                            detail |-> "yt-dlp not installed. Run: pip install yt-dlp"])
                /\ UNCHANGED disk
           ELSE IF IsPrepared(_prepared_videos, md5(url))
           THEN /\ Respond(CachedVideo(_prepared_videos, md5(url)))
                /\ UNCHANGED disk
           ELSE /\ disk' = makedirs(disk, VideoDir(md5(url)))
                /\ pc' = "download"
                /\ outcome' = "none"
                /\ response' = None
    /\ download' = NewDownload
    /\ UNCHANGED <<temp_dir, _prepared_videos>>
    /\ UNCHANGED <<decoded, audio_array, model_out, calls>>
    /\ UNCHANGED smoothVars
    /\ UNCHANGED globalVars
    /\ UNCHANGED invocations

\* /prepare-youtube-video from the end of the loop to its response (lines
\* 1278-1325).
StorePreparedVideo ==
    /\ pc = "downloaded"
    /\ endpoint = "prepare-youtube-video"
    /\ \E r \in StorePrepared(_prepared_videos, disk, md5(request.url), download) :
        /\ _prepared_videos' = r.cache
        /\ Respond(r.response)
    /\ UNCHANGED <<disk, temp_dir, download>>
    /\ UNCHANGED <<endpoint, decoded, audio_array, request, model_out, calls>>
    /\ UNCHANGED smoothVars
    /\ UNCHANGED globalVars
    /\ UNCHANGED invocations

\* GET /stream-video/{video_id}
StreamVideo ==
    /\ pc = "serving"
    /\ endpoint' = "stream-video"
    /\ \E video_id \in VideoIds :
        /\ request' = [video_id |-> video_id]
        /\ Respond(stream_video(_prepared_videos, disk, video_id))
    /\ download' = NewDownload
    /\ UNCHANGED <<disk, temp_dir, _prepared_videos>>
    /\ UNCHANGED <<decoded, audio_array, model_out, calls>>
    /\ UNCHANGED smoothVars
    /\ UNCHANGED globalVars
    /\ UNCHANGED invocations

\* DELETE /cleanup-video/{video_id}
CleanupVideo ==
    /\ pc = "serving"
    /\ endpoint' = "cleanup-video"
    /\ \E video_id \in VideoIds :
        /\ request' = [video_id |-> video_id]
        /\ \E r \in {cleanup_video(_prepared_videos, disk, video_id)} :
            /\ _prepared_videos' = r.cache
            /\ disk' = r.disk
            /\ Respond(r.response)
    /\ download' = NewDownload
    /\ UNCHANGED temp_dir
    /\ UNCHANGED <<decoded, audio_array, model_out, calls>>
    /\ UNCHANGED smoothVars
    /\ UNCHANGED globalVars
    /\ UNCHANGED invocations

NextSmooth == Smooth

NextWindow == ClassifyAudio \/ ClassifyAudioLocal

NextInference == ClassifyAudioLocal \/ LocalInference \/ AnalyzeYoutube

NextConcurrent == FirstCallSteps \/ SecondCallSteps

NextService ==
    \/ Lifespan
    \/ ReceiveClassify
    \/ ReceiveClassifyLocal
    \/ ReceiveAnalyzeYoutube
    \/ ClassifyAudio
    \/ ClassifyAudioLocal
    \/ DownloadAttempt
    \/ LoadYoutubeAudio
    \/ AnalyzeYoutube
    \/ InferenceFails

NextYoutubeVideo ==
    \/ PrepareYoutubeVideo
    \/ DownloadAttempt
    \/ StorePreparedVideo
    \/ StreamVideo
    \/ CleanupVideo
    \/ LoadYoutubeAudio
    \/ AnalyzeYoutube
    \/ InferenceFails

Next ==
    \/ Smooth
    \/ ClassifyAudio
    \/ ClassifyAudioLocal
    \/ LocalInference
    \/ AnalyzeYoutube
    \/ FirstCallSteps
    \/ SecondCallSteps
    \/ Lifespan
    \/ ReceiveClassify
    \/ ReceiveClassifyLocal
    \/ ReceiveAnalyzeYoutube
    \/ InferenceFails
    \/ DownloadAttempt
    \/ LoadYoutubeAudio
    \/ PrepareYoutubeVideo
    \/ StorePreparedVideo
    \/ StreamVideo
    \/ CleanupVideo

SpecSmooth == InitSmooth /\ [][NextSmooth]_vars

SpecWindow == InitWindow /\ [][NextWindow]_vars

SpecInference == InitInference /\ [][NextInference]_vars

SpecConcurrent == InitConcurrent /\ [][NextConcurrent]_vars

SpecService == InitService /\ [][NextService]_vars

SpecYoutubeVideo == InitYoutubeVideo /\ [][NextYoutubeVideo]_vars

Spec == Init /\ [][Next]_vars

\* -------------------------------------------------------------- properties

\* The maximal runs of value v in b, as <<first, last>> (1-based, inclusive).
MaximalRuns(b, v) ==
    {<<lo, CHOOSE hi \in lo..Len(b) :
              /\ \A j \in lo..hi : b[j] = v
              /\ (hi = Len(b) \/ b[hi + 1] # v)>> :
        lo \in {j \in 1..Len(b) : b[j] = v /\ (j = 1 \/ b[j - 1] # v)}}

RunLength(r) == r[2] - r[1] + 1

\* A run that touches neither end of the series.
Interior(b, r) == r[1] > 1 /\ r[2] < Len(b)

AllFrames(b, r, v) == \A j \in r[1]..r[2] : b[j] = v

\* The number of one-frames of b.
Ones(b) == Cardinality({j \in 1..Len(b) : b[j] = 1})

Called(s, t) == pc = "smoothed" /\ scores = s /\ threshold = t

\* C1: gap filling. A maximal zero run of the binarization is turned to ones
\* if and only if it has a one-frame on both sides and is strictly shorter
\* than min_gap_frames; otherwise it stays zero. [1,0,0,0,1] stays with
\* min_gap_frames = 3 and becomes all ones with min_gap_frames = 4.
C1_GapFilling ==
    pc = "smoothed" =>
        /\ Len(gap_filled) = Len(binarized)
        /\ \A r \in MaximalRuns(binarized, 0) :
            IF Interior(binarized, r) /\ RunLength(r) < min_gap_frames
            THEN AllFrames(gap_filled, r, 1)
            ELSE AllFrames(gap_filled, r, 0)
        /\ (Called(GapExampleScores, 4) /\ min_gap_frames = 3
                => gap_filled = <<1, 0, 0, 0, 1>>)
        /\ (Called(GapExampleScores, 4) /\ min_gap_frames = 4
                => gap_filled = <<1, 1, 1, 1, 1>>)

\* C1 witness: one call with an interior gap that was filled and a gap at
\* the start, shorter than min_gap_frames, that was not.
C1_Witness ==
    /\ pc = "smoothed"
    /\ \E r \in MaximalRuns(binarized, 0) :
        Interior(binarized, r) /\ AllFrames(gap_filled, r, 1)
    /\ \E r \in MaximalRuns(binarized, 0) :
        r[1] = 1 /\ RunLength(r) < min_gap_frames /\ AllFrames(gap_filled, r, 0)

\* C2: spike removal. total_positive_frames is the number of one-frames after
\* gap filling; a maximal run of ones after gap filling is zeroed if and only
\* if total_positive_frames > min_event_frames and the run is strictly shorter
\* than min_spike_frames, and is left alone otherwise. The two isolated
\* one-frames of [1,0,0,0,0,0,0,0,0,0,0,1] stay positive with
\* min_spike_frames = 2 and min_event_frames = 10.
C2_SpikeRemoval ==
    pc = "smoothed" =>
        /\ total_positive_frames = Ones(gap_filled)
        /\ Len(binary) = Len(gap_filled)
        /\ \A r \in MaximalRuns(gap_filled, 1) :
            IF Ones(gap_filled) > min_event_frames /\ RunLength(r) < min_spike_frames
            THEN AllFrames(binary, r, 0)
            ELSE AllFrames(binary, r, 1)
        /\ (Called(GateExampleScores, 4) /\ min_spike_frames = 2
                                         /\ min_event_frames = 10
                => /\ binary[1] = 1 /\ binary[12] = 1
                   /\ smoothed[1] >= threshold /\ smoothed[12] >= threshold)

\* C2 witness: one call in which a short run was zeroed and a longer run kept.
C2_Witness ==
    /\ pc = "smoothed"
    /\ \E r \in MaximalRuns(gap_filled, 1) :
        RunLength(r) < min_spike_frames /\ AllFrames(binary, r, 0)
    /\ \E r \in MaximalRuns(gap_filled, 1) :
        RunLength(r) >= min_spike_frames /\ AllFrames(binary, r, 1)

C4_BoundsByBinarization ==
    pc = "smoothed" =>
        \A i \in DOMAIN binarized :
            /\ binarized[i] = 1 => smoothed[i] >= threshold
            /\ binarized[i] = 0 => smoothed[i] <= Half(threshold)

\* C4 amended: the smoothed score is >= threshold on every frame whose final
\* binary state (after gap filling and spike removal) is 1 and
\* <= threshold * 0.5 on every frame whose final state is 0.
C4_BoundsByFinalState ==
    pc = "smoothed" =>
        \A i \in DOMAIN binary :
            /\ binary[i] = 1 => smoothed[i] >= threshold
            /\ binary[i] = 0 => smoothed[i] <= Half(threshold)

\* C4 witness: a call with a positive threshold in which a frame below the
\* threshold was filled in and ends at the threshold, next to a frame that
\* stays negative.
C4_Witness ==
    /\ pc = "smoothed"
    /\ threshold > 0
    /\ \E i \in DOMAIN binary :
        binarized[i] = 0 /\ binary[i] = 1 /\ smoothed[i] = threshold
    /\ \E i \in DOMAIN binary :
        binarized[i] = 0 /\ binary[i] = 0 /\ smoothed[i] <= Half(threshold)

\* Gap filling done on the immutable binarization: decompose into maximal
\* runs first, then fill every qualifying zero run.
FillByRuns(b, minGap) ==
    [j \in 1..Len(b) |->
        IF \E r \in MaximalRuns(b, 0) :
              /\ j \in r[1]..r[2]
              /\ Interior(b, r)
              /\ RunLength(r) < minGap
        THEN 1 ELSE b[j]]

\* C5: the in-place scan gives the same result as filling by runs of the
\* original binarization; a frame filled by the pass changes no other gap's fate.
C5_FillOnOriginal ==
    pc = "smoothed" => gap_filled = FillByRuns(binarized, min_gap_frames)

\* C5 witness: two interior gaps in one series, the first of them filled
\* before the scan reaches the second.
C5_Witness ==
    /\ pc = "smoothed"
    /\ \E r1, r2 \in MaximalRuns(binarized, 0) :
        /\ r1[2] < r2[1]
        /\ Interior(binarized, r1)
        /\ Interior(binarized, r2)
        /\ AllFrames(gap_filled, r1, 1)

AllOnes(b) == Len(b) > 0 /\ \A j \in 1..Len(b) : b[j] = 1

AllZeros(b) == Len(b) > 0 /\ \A j \in 1..Len(b) : b[j] = 0

\* C6 as stated: an all-ones or all-zeros binarization is kept through both
\* passes for every min_gap_frames, min_spike_frames and min_event_frames.
C6_UniformKept ==
    pc = "smoothed" /\ (AllOnes(binarized) \/ AllZeros(binarized)) =>
        gap_filled = binarized /\ binary = binarized

\* C6 amended: an all-zeros binarization is always kept; an all-ones
\* binarization of n frames is kept through gap filling, and through spike
\* removal unless min_event_frames < n < min_spike_frames, in which case
\* every frame is zeroed.
C6_UniformKeptUnlessSpike ==
    pc = "smoothed" =>
        /\ AllZeros(binarized) => gap_filled = binarized /\ binary = binarized
        /\ AllOnes(binarized) =>
            /\ gap_filled = binarized
            /\ IF min_event_frames < Len(scores) /\ Len(scores) < min_spike_frames
               THEN AllZeros(binary)
               ELSE binary = binarized

\* C6 witness: an all-ones series long enough for spike removal to proceed
\* and kept as it is.
C6_Witness ==
    /\ pc = "smoothed"
    /\ AllOnes(binarized)
    /\ Len(scores) > min_event_frames
    /\ min_spike_frames > 0
    /\ binary = binarized

\* C7: the output has as many frames as the input, frame i of the output is
\* derived from frame i of the input, and the empty series gives the empty
\* series.
C7_LengthAndAlignment ==
    pc = "smoothed" =>
        /\ Len(smoothed) = Len(scores)
        /\ \A i \in 1..Len(scores) :
            smoothed[i] \in {scores[i], threshold, Half(threshold)}
        /\ scores = <<>> => smoothed = <<>>

\* C7 witness: a series of several frames, some of them changed.
C7_Witness ==
    /\ pc = "smoothed"
    /\ Len(scores) > 1
    /\ \E i \in 1..Len(scores) : smoothed[i] # scores[i]
    /\ \E i \in 1..Len(scores) : smoothed[i] = scores[i]

EndToEndCall ==
    /\ Called(EndToEndScores, 50)
    /\ min_gap_frames = 2
    /\ min_spike_frames = 2
    /\ min_event_frames = 3

C9_WindowLength ==
    pc = "prepared" /\ Len(decoded) > 0 =>
        outcome = "ok" /\ Len(audio_array) = EXPECTED_SAMPLES

\* C9 witness: a short buffer whose length does not divide the window.
C9_Witness ==
    /\ pc = "prepared"
    /\ Len(decoded) > 0
    /\ Len(decoded) < EXPECTED_SAMPLES
    /\ EXPECTED_SAMPLES % Len(decoded) # 0
    /\ Len(audio_array) = EXPECTED_SAMPLES

\* C10: a buffer shorter than the window is repeated periodically: sample i
\* of the window (0-based) is buffer[i mod len(buffer)], never silence.
C10_TileContent ==
    pc = "prepared" /\ Len(decoded) > 0 /\ Len(decoded) < EXPECTED_SAMPLES =>
        /\ DOMAIN audio_array = 1..EXPECTED_SAMPLES
        /\ \A i \in 0..(EXPECTED_SAMPLES - 1) :
            audio_array[i + 1] = decoded[(i % Len(decoded)) + 1]

\* C10 witness: a short buffer of differing, non-silent samples whose last
\* repetition is cut.
C10_Witness ==
    /\ pc = "prepared"
    /\ Len(decoded) > 1
    /\ Len(decoded) < EXPECTED_SAMPLES
    /\ EXPECTED_SAMPLES % Len(decoded) # 0
    /\ decoded[1] # decoded[2]
    /\ \A i \in DOMAIN decoded : decoded[i] # 0
    /\ audio_array[EXPECTED_SAMPLES] = decoded[((EXPECTED_SAMPLES - 1) % Len(decoded)) + 1]

\* C11: a buffer at least as long as the window is cut to its first
\* EXPECTED_SAMPLES samples, a buffer of exactly that length is passed on
\* unchanged, and preparing an already prepared window changes nothing.
C11_TruncationIdempotence ==
    pc = "prepared" /\ Len(decoded) > 0 =>
        /\ Len(decoded) >= EXPECTED_SAMPLES =>
               audio_array = SubSeq(decoded, 1, EXPECTED_SAMPLES)
        /\ Len(decoded) = EXPECTED_SAMPLES => audio_array = decoded
        /\ PrepareWindow(audio_array) = [outcome |-> "ok", audio_array |-> audio_array]

\* C11 witness: a buffer longer than the window whose dropped sample differs
\* from the first one kept.
C11_Witness ==
    /\ pc = "prepared"
    /\ Len(decoded) > EXPECTED_SAMPLES
    /\ decoded[Len(decoded)] # decoded[1]
    /\ Len(audio_array) = EXPECTED_SAMPLES
    /\ audio_array[1] = decoded[1]

\* C12: a decoded buffer of length 0 that reaches the tiling step ends in
\* InvalidInputError, not in another failure and not in a result.
C12_EmptyIsInvalidInput ==
    pc = "prepared" /\ Len(decoded) = 0 => outcome = "InvalidInputError"

\* The buffer /analyze-youtube splits, and the chunk length in samples.
SplitBuffer == LimitDuration(decoded, request.max_duration_s)

SplitChunkSamples == request.chunk_duration_s * SAMPLE_RATE

\* C13: every chunk tensor passed to the model by /analyze-youtube has
\* exactly EXPECTED_SAMPLES samples, whatever chunk_duration_s is.
C13_ChunkTensorLength ==
    pc = "analyzed" /\ outcome = "ok" =>
        \A k \in 1..Len(calls) : Len(calls[k].audio) = EXPECTED_SAMPLES

\* C14: a non-empty buffer of L samples split with a positive chunk length c
\* gives exactly ceil(L / c) chunks, indexed 0, 1, 2, ..., the first starting
\* at 0, each starting where the previous one ended, all of length c except
\* the last, which has 1..c samples and ends at L; the chunks hold the
\* buffer's samples in order, none twice, none skipped, and none is empty.
C14_Partition ==
    pc = "analyzed" /\ Len(SplitBuffer) > 0 /\ SplitChunkSamples > 0 =>
        /\ outcome = "ok"
        /\ LET L == Len(SplitBuffer)
               c == SplitChunkSamples
               chunks == response.chunks
               n == Len(chunks)
           IN  /\ n = (L + c - 1) \div c
               /\ response.num_chunks = n
               /\ chunks[1].start_sample = 0
               /\ chunks[n].end_sample = L
               /\ \A k \in 1..n :
                   /\ chunks[k].chunk_index = k - 1
                   /\ chunks[k].end_sample - chunks[k].start_sample >= 1
                   /\ chunks[k].end_sample - chunks[k].start_sample <= c
                   /\ k < n => chunks[k].end_sample - chunks[k].start_sample = c
                   /\ k > 1 => chunks[k].start_sample = chunks[k - 1].end_sample
                   /\ \A i \in 1..Min(chunks[k].end_sample - chunks[k].start_sample,
                                      Len(chunks[k].audio_tensor)) :
                       chunks[k].audio_tensor[i] =
                           SplitBuffer[chunks[k].start_sample + i]

\* C14 witness: several chunks, the last one shorter than the others.
C14_Witness ==
    /\ pc = "analyzed"
    /\ outcome = "ok"
    /\ SplitChunkSamples > 0
    /\ response.num_chunks >= 3
    /\ response.chunks[response.num_chunks].end_sample
         - response.chunks[response.num_chunks].start_sample < SplitChunkSamples

\* C15: the aggregated score of a label is the mean of the chunks' global
\* scores for it, and a request that yields no chunk (an empty buffer, a
\* non-positive max_duration_s) ends in InvalidInputError instead of
\* aggregated scores.
C15_AggregateMeanOrError ==
    pc = "analyzed" /\ SplitChunkSamples # 0 =>
        IF Len(calls) = 0
        THEN outcome = "InvalidInputError"
        ELSE /\ outcome = "ok"
             /\ \A prompt \in Elements(request.prompt_list) :
                 LET n == response.num_chunks
                     total == Sum([k \in 1..n |->
                                      response.chunks[k].global_scores[prompt]])
                     a == response.aggregated_scores[prompt]
                 IN  /\ ~a.nan
                     /\ a.value % Grid = 0
                     /\ 2 * (n * a.value - total) <= n * Grid
                     /\ 2 * (total - n * a.value) <= n * Grid

\* The raw series the model returned for the prompt at position j of a
\* request to /classify-local.
RawRow(j) == model_out[1][j]

\* g is the mean of the series row, rounded to the grid.
IsRoundedMean(g, row) ==
    /\ g % Grid = 0
    /\ 2 * (Len(row) * g - Sum(row)) <= Len(row) * Grid
    /\ 2 * (Sum(row) - Len(row) * g) <= Len(row) * Grid

C17_LabelsIndependent ==
    pc = "responded" /\ request.postprocess =>
        \A j \in 1..Len(request.prompt_list) :
            response.smoothed_frame_scores[request.prompt_list[j]] =
                RoundSeq(postprocess_frame_scores(
                             RoundSeq(RawRow(j)), request.threshold,
                             MIN_GAP_FRAMES, MIN_SPIKE_FRAMES,
                             MIN_EVENT_FRAMES).smoothed)

\* C17 witness: two labels with different raw series get different smoothed
\* series, and smoothing changed one of them.
C17_Witness ==
    /\ pc = "responded"
    /\ request.postprocess
    /\ Len(request.prompt_list) = 2
    /\ RawRow(1) # RawRow(2)
    /\ response.smoothed_frame_scores["a"] # response.smoothed_frame_scores["b"]
    /\ response.smoothed_frame_scores["a"] # response.frame_scores["a"]

\* The labels whose series the handler passed to the smoother.
SmoothedLabels ==
    {calls[k].label :
        k \in {i \in 1..Len(calls) : calls[i].fn = "postprocess_frame_scores"}}

\* C19 as stated: in /classify-local and for every chunk of /analyze-youtube
\* each label's series is passed through the smoother before the frame
\* scores are returned.
C19_AlwaysSmoothed ==
    pc \in {"responded", "analyzed"} /\ outcome = "ok" /\ calls # <<>> =>
        SmoothedLabels = Elements(request.prompt_list)

\* C19: /classify-local prepares the window, calls the model on it and then,
\* only if the postprocess field is set, smooths each label's rounded series
\* in prompt order and returns the result as smoothed_frame_scores beside
\* the unsmoothed frame_scores (null when postprocess is off);
\* /analyze-youtube never calls the smoother and returns the rounded raw
\* frame scores of each chunk.
C19_SmoothedOnRequest ==
    /\ pc = "responded" =>
        /\ Len(audio_array) = EXPECTED_SAMPLES
        /\ calls[1] = ModelCall(audio_array)
        /\ \A j \in 1..Len(request.prompt_list) :
            response.frame_scores[request.prompt_list[j]] = RoundSeq(RawRow(j))
        /\ IF request.postprocess
           THEN /\ Len(calls) = 1 + Len(request.prompt_list)
                /\ \A j \in 1..Len(request.prompt_list) :
                    LET prompt == request.prompt_list[j]
                    IN  /\ calls[1 + j] = SmoothCall(prompt)
                        /\ response.smoothed_frame_scores[prompt] =
                            RoundSeq(postprocess_frame_scores(
                                response.frame_scores[prompt], request.threshold,
                                MIN_GAP_FRAMES, MIN_SPIKE_FRAMES,
                                MIN_EVENT_FRAMES).smoothed)
           ELSE /\ Len(calls) = 1
                /\ response.smoothed_frame_scores = None
    /\ pc = "analyzed" /\ outcome = "ok" =>
        /\ SmoothedLabels = {}
        /\ \A k \in 1..response.num_chunks :
            response.chunks[k].frame_scores["a"] =
                RoundSeq(ModelOutput(model_out, k - 1)[1])

\* C19 witness: a response of /classify-local whose smoothed series differs
\* from its frame scores.
C19_Witness ==
    /\ pc = "responded"
    /\ request.postprocess
    /\ \E prompt \in Elements(request.prompt_list) :
        response.smoothed_frame_scores[prompt] # response.frame_scores[prompt]

\* C18: postprocess_frame_scores is deterministic and free of side effects:
\* the caller's list holds the same values during and after the call as
\* before, a finished call has returned what the call run alone returns for
\* its arguments, however its statements interleave with another call's, and
\* two finished calls with equal arguments have returned equal results.
C18_DeterministicNoSideEffects ==
    pc = "calls" =>
        /\ \A i \in 1..Len(invocations) :
            /\ invocations[i].scores = invocations[i].given
            /\ invocations[i].pc = "done" =>
                invocations[i].result =
                    postprocess_frame_scores(
                        invocations[i].given, invocations[i].threshold,
                        invocations[i].min_gap_frames,
                        invocations[i].min_spike_frames,
                        invocations[i].min_event_frames).smoothed
        /\ (/\ invocations[1].pc = "done"
            /\ invocations[2].pc = "done"
            /\ invocations[1].given = invocations[2].given
            /\ invocations[1].min_gap_frames = invocations[2].min_gap_frames
            /\ invocations[1].min_spike_frames = invocations[2].min_spike_frames
            /\ invocations[1].min_event_frames = invocations[2].min_event_frames)
           => invocations[1].result = invocations[2].result

\* C18 witness: two calls with different arguments have both finished, each
\* with a result that differs from its input.
C18_Witness ==
    /\ pc = "calls"
    /\ invocations[1].pc = "done"
    /\ invocations[2].pc = "done"
    /\ invocations[1].given # invocations[2].given
    /\ Len(invocations[1].given) = Len(invocations[2].given)
    /\ invocations[1].result # invocations[1].given
    /\ invocations[2].result # invocations[2].given
    /\ invocations[1].result # invocations[2].result

\* C20: when openflam cannot be imported at startup the service starts and
\* /classify, /classify-local and /analyze-youtube answer every request with
\* (mock) data, not with an error.
C20_MockDataWithoutModel ==
    startup_log = "OpenFLAM not installed. Inference endpoints will return mock data."
        => /\ pc # "rejected"
           /\ outcome # "HTTPException"

\* The result of calling postprocess_frame_scores again on the returned
\* series with the same parameters.
SecondCall ==
    postprocess_frame_scores(smoothed, threshold, min_gap_frames,
                             min_spike_frames, min_event_frames)

\* C25: with threshold > 0 smoothing is idempotent: the second call returns
\* the series it was given, its binarization is the final binary state of
\* the first call, it fills no gap and removes no spike.
C25_Idempotent ==
    pc = "smoothed" /\ threshold > 0 =>
        /\ SecondCall.smoothed = smoothed
        /\ SecondCall.binarized = binary
        /\ SecondCall.gap_filled = SecondCall.binarized
        /\ SecondCall.binary = SecondCall.gap_filled

\* C25 witness: a first call with threshold > 0 that filled a gap, raised
\* its frames and lowered another frame; the second call returns the same.
C25_Witness ==
    /\ pc = "smoothed"
    /\ threshold > 0
    /\ gap_filled # binarized
    /\ \E j \in 1..Len(scores) : smoothed[j] > scores[j]
    /\ \E j \in 1..Len(scores) : smoothed[j] < scores[j]
    /\ SecondCall.smoothed = smoothed

\* C26: in the final binary state every zero run with a one-frame on both
\* sides has at least min_gap_frames frames, and a run of ones shorter than
\* min_spike_frames remains only if gap filling left at most
\* min_event_frames one-frames.
C26_FinalStateInvariant ==
    pc = "smoothed" =>
        /\ \A r \in MaximalRuns(binary, 0) :
            Interior(binary, r) => RunLength(r) >= min_gap_frames
        /\ (\E r \in MaximalRuns(binary, 1) : RunLength(r) < min_spike_frames)
            => Ones(gap_filled) <= min_event_frames

\* C26 witness: the final state has an interior zero run of exactly
\* min_gap_frames frames and a run of ones shorter than min_spike_frames.
C26_Witness ==
    /\ pc = "smoothed"
    /\ min_gap_frames > 0
    /\ \E r \in MaximalRuns(binary, 0) :
        Interior(binary, r) /\ RunLength(r) = min_gap_frames
    /\ \E r \in MaximalRuns(binary, 1) : RunLength(r) < min_spike_frames
    /\ Ones(gap_filled) <= min_event_frames

\* Frame j lies in a gap that step 1 filled.
InFilledGap(j) == binarized[j] = 0 /\ gap_filled[j] = 1

\* Frame j lies in a run of ones, after gap filling, of at least
\* min_spike_frames frames.
InLongRun(j) ==
    \E r \in MaximalRuns(gap_filled, 1) :
        j \in r[1]..r[2] /\ RunLength(r) >= min_spike_frames

StatusCode == Get(response, "status_code", 200)

\* The request of a handler with a retry loop has completed.
Completed ==
    \/ pc = "serving" /\ endpoint = "prepare-youtube-video"
    \/ pc = "analyzed" /\ endpoint = "analyze-youtube"

AllFailed ==
    /\ Len(download.attempts) = 3
    /\ \A k \in 1..3 : ~download.attempts[k].ok

\* C21: in /prepare-youtube-video and /analyze-youtube the strategies are
\* tried in the order [ios, web], [android, web], [tv, web]; no strategy is
\* tried after one has succeeded; every retry finds the download directory
\* without files; the request ends in a 502 error if and only if all three
\* attempts failed; and after a successful attempt no error is recorded,
\* whatever failed before it.
C21_RetryProtocol ==
    LET a == download.attempts
        n == Len(a)
    IN  /\ n <= 3
        /\ \A k \in 1..n :
            /\ a[k].strategy =
                   <<<<"ios", "web">>, <<"android", "web">>, <<"tv", "web">>>>[k]
            /\ k < n => ~a[k].ok
            /\ k > 1 => a[k].found = {}
        /\ n > 0 /\ a[n].ok => download.last_error = None
        /\ n > 0 /\ ~a[n].ok => download.last_error # None
        /\ Completed => (StatusCode = 502 <=> AllFailed)

\* C21 witness: /prepare-youtube-video has answered with the video after two
\* failed attempts, the first of which left a partial file, and a third
\* attempt that succeeded.
C21_Witness ==
    /\ pc = "serving"
    /\ endpoint = "prepare-youtube-video"
    /\ Len(download.attempts) = 3
    /\ ~download.attempts[1].ok
    /\ download.attempts[1].wrote # {}
    /\ ~download.attempts[2].ok
    /\ download.attempts[3].ok
    /\ download.last_error = None
    /\ StatusCode = 200
    /\ response.ready

\* C22: once /analyze-youtube has created its temporary directory, the
\* directory exists while the request is being handled and is gone when the
\* request has completed, whichever way it ended: a 502 after three failed
\* downloads, a 500 for a missing or unreadable audio file, an exception
\* raised by range() or by the model, or the response.
C22_TempDirRemoved ==
    endpoint = "analyze-youtube" /\ temp_dir # None =>
        /\ pc \in {"download", "downloaded", "analyze", "analyzed"}
        /\ pc # "analyzed" => temp_dir \in DOMAIN disk
        /\ pc = "analyzed" =>
            /\ temp_dir \notin DOMAIN disk
            /\ \/ StatusCode = 502 /\ AllFailed
               \/ StatusCode = 500 /\ outcome = "HTTPException"
               \/ outcome \in {"ValueError", "Exception", "ok"}

\* C22 witness: the model raised on the first chunk of an audio track that
\* the second strategy had downloaded, and the directory is gone.
C22_Witness ==
    /\ pc = "analyzed"
    /\ endpoint = "analyze-youtube"
    /\ outcome = "Exception"
    /\ Len(download.attempts) = 2
    /\ download.attempts[2].wrote # {}
    /\ temp_dir # None
    /\ temp_dir \notin DOMAIN disk

\* C23: a /prepare-youtube-video that succeeds records in the cache the id,
\* title and duration it returns; an entry stays as recorded until
\* /cleanup-video of its id; and a /prepare-youtube-video for a URL whose id
\* has an entry returns that id, title and duration with ready = true,
\* starts no download and changes neither the cache nor the disk.
C23_CacheHit ==
    [][/\ pc = "downloaded" /\ endpoint = "prepare-youtube-video"
          /\ StatusCode' = 200 =>
            /\ md5(request.url) \in DOMAIN _prepared_videos'
            /\ response'.video_id = md5(request.url)
            /\ response'.ready
            /\ response'.title = _prepared_videos'[md5(request.url)].title
            /\ response'.duration_s =
                   _prepared_videos'[md5(request.url)].duration_s
       /\ \A video_id \in DOMAIN _prepared_videos :
            \/ /\ video_id \in DOMAIN _prepared_videos'
               /\ _prepared_videos'[video_id] = _prepared_videos[video_id]
            \/ /\ pc = "serving"
               /\ endpoint' = "cleanup-video"
               /\ request'.video_id = video_id
       /\ pc = "serving" /\ endpoint' = "prepare-youtube-video"
          /\ md5(request'.url) \in DOMAIN _prepared_videos =>
            /\ response' =
                   [video_id |-> md5(request'.url),
                    title |-> _prepared_videos[md5(request'.url)].title,
                    duration_s |-> _prepared_videos[md5(request'.url)].duration_s,
                    video_url |-> [stream_video |-> md5(request'.url)],
                    ready |-> TRUE]
            /\ pc' = "serving"
            /\ download'.attempts = <<>>
            /\ _prepared_videos' = _prepared_videos
            /\ disk' = disk
      ]_vars

\* C23 witness: /prepare-youtube-video has answered with a prepared video
\* without any download attempt, the video being the one the cache holds, a
\* video without title and duration.
C23_Witness ==
    /\ pc = "serving"
    /\ endpoint = "prepare-youtube-video"
    /\ StatusCode = 200
    /\ response.ready
    /\ download.attempts = <<>>
    /\ md5(request.url) \in DOMAIN _prepared_videos
    /\ response.title = "Unknown"
    /\ _prepared_videos[md5(request.url)].title = "Unknown"

\* The entries other than video_id, and their directories, are left as they
\* were.
OthersUnchanged(video_id) ==
    \A other \in DOMAIN _prepared_videos \ {video_id} :
        /\ other \in DOMAIN _prepared_videos'
        /\ _prepared_videos'[other] = _prepared_videos[other]
        /\ VideoDir(other) \in DOMAIN disk'
        /\ disk'[VideoDir(other)] = disk[VideoDir(other)]

\* C24: an id enters the cache only when /prepare-youtube-video succeeds for
\* it and leaves it only by /cleanup-video of that id; /stream-video/{id}
\* serves the file of an id that is in the cache and answers 404 for any
\* other id, so also after a clean-up and until the URL is prepared again;
\* /cleanup-video/{id} of an id in the cache answers cleaned_up and removes
\* the entry and its directory, and of an id not in the cache answers
\* not_found and changes nothing; either way every other entry is left as it
\* was.
C24_Lifecycle ==
    [][/\ \A video_id \in VideoIds :
            /\ video_id \notin DOMAIN _prepared_videos
               /\ video_id \in DOMAIN _prepared_videos' =>
                    /\ pc = "downloaded"
                    /\ endpoint = "prepare-youtube-video"
                    /\ md5(request.url) = video_id
                    /\ StatusCode' = 200
            /\ video_id \in DOMAIN _prepared_videos
               /\ video_id \notin DOMAIN _prepared_videos' =>
                    /\ pc = "serving"
                    /\ endpoint' = "cleanup-video"
                    /\ request'.video_id = video_id
       /\ pc = "serving" /\ endpoint' = "stream-video" =>
            /\ IF request'.video_id \in DOMAIN _prepared_videos
               THEN /\ StatusCode' = 200
                    /\ response'.path =
                           _prepared_videos[request'.video_id].file_path
                    /\ response'.path.dir = VideoDir(request'.video_id)
                    /\ response'.path.name \in disk[VideoDir(request'.video_id)]
               ELSE StatusCode' = 404
            /\ _prepared_videos' = _prepared_videos
            /\ disk' = disk
       /\ pc = "serving" /\ endpoint' = "cleanup-video" =>
            /\ IF request'.video_id \in DOMAIN _prepared_videos
               THEN /\ response' = [status |-> "cleaned_up",
                                    video_id |-> request'.video_id]
                    /\ request'.video_id \notin DOMAIN _prepared_videos'
                    /\ VideoDir(request'.video_id) \notin DOMAIN disk'
               ELSE /\ response' = [status |-> "not_found"]
                    /\ _prepared_videos' = _prepared_videos
                    /\ disk' = disk
            /\ OthersUnchanged(request'.video_id)
      ]_vars

\* C24 witness: /cleanup-video has answered cleaned_up for a video that is
\* no longer in the cache nor on disk, while another prepared video is still
\* there with its file.
C24_Witness ==
    /\ pc = "serving"
    /\ endpoint = "cleanup-video"
    /\ response = [status |-> "cleaned_up", video_id |-> request.video_id]
    /\ request.video_id \notin DOMAIN _prepared_videos
    /\ VideoDir(request.video_id) \notin DOMAIN disk
    /\ \E other \in DOMAIN _prepared_videos :
        exists(disk, _prepared_videos[other].file_path)

====
